---- MODULE Spec2Model ----
(***************************************************************************)
(* The query orchestration engine of the assistant backend: the tool       *)
(* registry (MCPToolRegistry), the cached executor and the processQuery    *)
(* pipeline of AIService, with the external collaborators (reasoning       *)
(* model, tool implementations, session store, preference store) as        *)
(* nondeterministic inputs.                                                *)
(***************************************************************************)
EXTENDS Naturals, Sequences, FiniteSets, TLC

VARIABLES
  now,            \* Date.now(), in milliseconds
  ticks,          \* how often the clock has advanced
  tools,          \* MCPToolRegistry.tools: name -> implementation
  metadata,       \* MCPToolRegistry.metadata: name -> AIToolMetadata
  responseCache,  \* AIService.responseCache: cacheKey -> {result, timestamp}
  apiCall,        \* the direct executeTool call of an outside caller
  otherCall,      \* the direct executeTool call of a second, concurrent caller
  apiCalls,       \* direct executeTool calls made so far
  pq,             \* the processQuery run
  queries,        \* processQuery runs started so far
  regCall,        \* the last static MCPToolRegistry.executeTool call
  lastExec        \* history: per (tool, user, parameters), the last result a
                  \* tool invocation of executeTool returned, and when

vars == <<now, ticks, tools, metadata, responseCache, apiCall, otherCall, apiCalls, pq, queries,
          regCall, lastExec>>

----------------------------------------------------------------------------
(* Bounds of the model *)

MaxTicks == 2
MaxApiCalls == 2
MaxQueries == 1

(* Program constants *)

cacheTimeout == 300000
cacheSizeLimit == 100

TickSteps == {1, cacheTimeout - 1}

Users == {"u1", "u2"}

----------------------------------------------------------------------------
(* Tool parameters and their serialisation *)

Params(fs) == [present |-> TRUE, fields |-> fs]
NoParams == [present |-> FALSE, fields |-> <<>>]

RECURSIVE JoinFields(_)
JoinFields(fs) ==
  IF fs = <<>> THEN ""
  ELSE IF Len(fs) = 1 THEN fs[1][1] \o ":" \o fs[1][2]
  ELSE fs[1][1] \o ":" \o fs[1][2] \o "," \o JoinFields(Tail(fs))

\* JSON.stringify(selection.parameters) inside a template literal
JSONStringify(p) ==
  IF ~p.present THEN "undefined" ELSE "{" \o JoinFields(p.fields) \o "}"

----------------------------------------------------------------------------
(* Tool results *)

NullData == [kind |-> "null"]
OpaqueData(d) == [kind |-> "opaque", id |-> d]

Ok(d) == [success |-> TRUE, data |-> d, error |-> ""]
Failed(e) == [success |-> FALSE, data |-> NullData, error |-> e]
NoResult == [success |-> FALSE, data |-> NullData, error |-> "<no result>"]

Returns(r) == [kind |-> "returns", result |-> r, isError |-> FALSE, message |-> ""]
ThrowsError(m) == [kind |-> "throws", result |-> NoResult, isError |-> TRUE, message |-> m]
ThrowsOther == [kind |-> "throws", result |-> NoResult, isError |-> FALSE, message |-> ""]
NoOutcome == [kind |-> "none", result |-> NoResult, isError |-> FALSE, message |-> ""]

Hit(title, url) == [title |-> title, url |-> url]
SearchData(results) == [kind |-> "search", results |-> results]
EmailData(emails) == [kind |-> "emails", emails |-> emails]

ThreeHits == << Hit("a", "http://a"), Hit("b", "http://b"), Hit("c", "http://c") >>
SixHits ==
  << Hit("a", "http://a"), Hit("b", ""), Hit("c", ""), Hit("d", ""),
     Hit("e", "http://e"), Hit("f", "http://f") >>

\* What a tool implementation may do when executed: the implementations are
\* opaque to the orchestrator.
ToolOutcomes(name) ==
  CASE name = "searchWeb" ->
         { Returns(Ok(SearchData(<<>>))), Returns(Ok(SearchData(ThreeHits))),
           Returns(Ok(SearchData(SixHits))), Returns(Failed("quota exceeded")),
           ThrowsError("network down") }
    [] name = "crawlPage" ->
         { Returns(Ok(OpaqueData("page"))), Returns(Failed("404")), ThrowsError("timeout") }
    [] name = "createDocument" ->
         { Returns(Ok(OpaqueData("document"))), Returns(Failed("drive full")),
           ThrowsError("network down") }
    [] name \in {"getEmails", "getLastTenMails"} ->
         { Returns(Ok(EmailData(<< [subject |-> "hello", sender |-> "ann"] >>))),
           Returns(Ok(EmailData(<<>>))), Returns(Ok(NullData)),
           Returns(Failed("quota exceeded")), ThrowsError("network down"), ThrowsOther }
    [] OTHER ->
         { Returns(Ok(OpaqueData("d1"))), Returns(Ok(OpaqueData("d2"))),
           Returns(Failed("quota exceeded")), ThrowsError("network down"), ThrowsOther }

----------------------------------------------------------------------------
(* MCPToolRegistry *)

BuiltinTools ==
  <<"getTodaysEvents", "getEmails", "getLastTenMails", "createCalendarEvent",
    "crawlPage", "searchWeb">>

Range(s) == {s[i] : i \in DOMAIN s}

ToolDefinition(n) == [name |-> n, impl |-> n \o "ToolDefinition"]

DataAccess(n) == IF n = "createCalendarEvent" THEN "write" ELSE "read"

ToolMetadata(n) == [name |-> n, dataAccess |-> DataAccess(n)]

\* a Map with one entry set
MapSet(m, k, v) == [x \in DOMAIN m \cup {k} |-> IF x = k THEN v ELSE m[x]]

EmptyMap == [x \in {} |-> {}]

\* registerToolWithMetadata(name, tool, metadata)
RegisterToolWithMetadata(reg, n, tool, md) ==
  [tools |-> MapSet(reg.tools, n, tool.impl), metadata |-> MapSet(reg.metadata, n, md)]

RECURSIVE RegisterDefaultsFrom(_, _)
RegisterDefaultsFrom(reg, i) ==
  IF i > Len(BuiltinTools) THEN reg
  ELSE RegisterDefaultsFrom(
         RegisterToolWithMetadata(reg, BuiltinTools[i], ToolDefinition(BuiltinTools[i]),
                                  ToolMetadata(BuiltinTools[i])),
         i + 1)

\* registerDefaultTools(), run by the constructor
RegisterDefaultTools == RegisterDefaultsFrom([tools |-> EmptyMap, metadata |-> EmptyMap], 1)

\* static registerTool(tool): the legacy registration
StaticRegisterTool(reg, tool) ==
  [tools |-> MapSet(reg.tools, tool.name, tool.impl), metadata |-> reg.metadata]

RECURSIVE RegisterAllFrom(_, _)
RegisterAllFrom(reg, i) ==
  IF i > Len(BuiltinTools) THEN reg
  ELSE RegisterAllFrom(StaticRegisterTool(reg, ToolDefinition(BuiltinTools[i])), i + 1)

\* Tools a caller may register besides the built-in ones
ExtraTools ==
  { ToolDefinition("createDocument"),
    [name |-> "crawlPage", impl |-> "customCrawlPage"] }

Undefined == "<undefined>"

\* getTool(name)
GetTool(name) == IF name \in DOMAIN tools THEN tools[name] ELSE Undefined

\* getToolMetadata(name)
GetToolMetadata(name) == IF name \in DOMAIN metadata THEN metadata[name] ELSE Undefined

ToolNames == Range(BuiltinTools) \cup {"createDocument", "searchGoogleDrive"}

Registry == [tools |-> tools, metadata |-> metadata]

RegisterAllTools ==
  /\ tools' = RegisterAllFrom(Registry, 1).tools
  /\ metadata' = RegisterAllFrom(Registry, 1).metadata
  /\ UNCHANGED <<now, ticks, responseCache, apiCall, otherCall, apiCalls, pq, queries, regCall, lastExec>>

RegisterTool(tool) ==
  /\ tools' = StaticRegisterTool(Registry, tool).tools
  /\ metadata' = StaticRegisterTool(Registry, tool).metadata
  /\ UNCHANGED <<now, ticks, responseCache, apiCall, otherCall, apiCalls, pq, queries, regCall, lastExec>>

\* The failure envelope of the static executor
Envelope(msg) == [success |-> FALSE, error |-> msg, timestamp |-> now]

NotFoundMessage(name) == "Tool '" \o name \o "' not found"

ErrorMessage(outcome) == IF outcome.isError THEN outcome.message ELSE "Unknown error"

\* a faulty static executor that lets the implementation's exception escape
StaticExecuteRethrows(name, outcome) ==
  IF GetTool(name) = Undefined
    THEN [threw |-> FALSE, value |-> Envelope(NotFoundMessage(name))]
  ELSE IF outcome.kind = "returns"
    THEN [threw |-> FALSE, value |-> outcome.result]
  ELSE [threw |-> TRUE, value |-> Envelope(ErrorMessage(outcome))]

\* static executeTool(name, userId, params): what the call resolves to
StaticExecuteResult(name, outcome) ==
  IF GetTool(name) = Undefined
    THEN [threw |-> FALSE, value |-> Envelope(NotFoundMessage(name))]
  ELSE IF outcome.kind = "returns"
    THEN [threw |-> FALSE, value |-> outcome.result]
  ELSE [threw |-> FALSE, value |-> Envelope(ErrorMessage(outcome))]

NoRegCall == [called |-> FALSE]

StaticExecuteTool(name, userId, outcome) ==
  /\ regCall' = [called |-> TRUE, name |-> name, found |-> name \in DOMAIN tools,
                 outcome |-> outcome, at |-> now,
                 threw |-> StaticExecuteResult(name, outcome).threw,
                 value |-> StaticExecuteResult(name, outcome).value]
  /\ UNCHANGED <<now, ticks, tools, metadata, responseCache, apiCall, otherCall, apiCalls, pq, queries, lastExec>>

----------------------------------------------------------------------------
(* AIService.executeTool: the cached executor *)

Null == "<null>"

\* a tool name inside a template literal
Show(t) == IF t = Undefined THEN "undefined" ELSE IF t = Null THEN "null" ELSE t

Selection(t, p) ==
  [tool |-> t, parameters |-> p, geminiOutput |-> [type |-> "undefined", val |-> ""],
   reasoning |-> "because"]

\* a faulty key that leaves the user out
CacheKeyWithoutUser(tool, userId, parameters) ==
  Show(tool) \o "_" \o JSONStringify(parameters)

CacheKey(tool, userId, parameters) ==
  Show(tool) \o "_" \o userId \o "_" \o JSONStringify(parameters)

\* a faulty freshness test that still serves an entry of age cacheTimeout
CacheServesAtTimeout(key) ==
  /\ key \in DOMAIN responseCache
  /\ now - responseCache[key].timestamp <= cacheTimeout

\* cachedData && Date.now() - cachedData.timestamp < this.cacheTimeout
CacheServes(key) ==
  /\ key \in DOMAIN responseCache
  /\ now - responseCache[key].timestamp < cacheTimeout

\* cleanCache()
CleanCache(cache) ==
  [k \in {x \in DOMAIN cache : ~(now - cache[x].timestamp > cacheTimeout)} |-> cache[k]]

CacheSize(cache) == Cardinality(DOMAIN cache)

\* a faulty executor that sweeps after every insertion, whatever the size
CacheAfterExecuteEager(key, result) ==
  CleanCache(MapSet(responseCache, key, [result |-> result, timestamp |-> now]))

\* this.responseCache.set(cacheKey, {result, timestamp}) and the periodic clean
CacheAfterExecute(key, result) ==
  LET stored == MapSet(responseCache, key, [result |-> result, timestamp |-> now])
  IN  IF CacheSize(stored) > cacheSizeLimit THEN CleanCache(stored) ELSE stored

IdleFrame ==
  [pc |-> "idle", tool |-> Undefined, userId |-> "", parameters |-> NoParams,
   result |-> NoResult, hit |-> FALSE, invoked |-> FALSE, stale |-> FALSE, error |-> ""]

\* a faulty executor that bypasses the cache for tools classified as writes
ExecuteToolEnterSparingWrites(selection, userId) ==
  LET call == [IdleFrame EXCEPT !.tool = selection.tool, !.userId = userId,
                                !.parameters = selection.parameters]
      key == CacheKey(selection.tool, userId, selection.parameters)
      write == selection.tool \in DOMAIN metadata
                 /\ metadata[selection.tool].dataAccess = "write"
  IN  IF GetTool(selection.tool) = Undefined
        THEN [call EXCEPT !.pc = "threw",
                          !.error = "Tool " \o Show(selection.tool) \o " not found"]
      ELSE IF CacheServes(key) /\ ~write
        THEN [call EXCEPT !.pc = "returned", !.result = responseCache[key].result,
                          !.hit = TRUE]
      ELSE [call EXCEPT !.pc = "await", !.invoked = TRUE,
                        !.stale = key \in DOMAIN responseCache]

\* executeTool up to its await: the registry lookup, the cache check and the
\* invocation of tool.execute (stale records that an entry was found for the
\* key and was too old to serve)
ExecuteToolEnter(selection, userId) ==
  LET call == [IdleFrame EXCEPT !.tool = selection.tool, !.userId = userId,
                                !.parameters = selection.parameters]
      key == CacheKey(selection.tool, userId, selection.parameters)
  IN  IF GetTool(selection.tool) = Undefined
        THEN [call EXCEPT !.pc = "threw",
                          !.error = "Tool " \o Show(selection.tool) \o " not found"]
      ELSE IF CacheServes(key)
        THEN [call EXCEPT !.pc = "returned", !.result = responseCache[key].result,
                          !.hit = TRUE]
      ELSE [call EXCEPT !.pc = "await", !.invoked = TRUE,
                        !.stale = key \in DOMAIN responseCache]

\* executeTool after tool.execute has settled
ExecuteToolResume(call, outcome) ==
  IF outcome.kind = "throws"
    THEN [call EXCEPT !.pc = "threw", !.error = ErrorMessage(outcome)]
    ELSE [call EXCEPT !.pc = "returned", !.result = outcome.result]

\* a faulty executor that never stores what the tool returned
CacheNeverWritten(call, outcome) == responseCache

CacheAfterResume(call, outcome) ==
  IF outcome.kind = "throws" THEN responseCache
  ELSE CacheAfterExecute(CacheKey(call.tool, call.userId, call.parameters), outcome.result)

HistoryAfterResume(call, outcome) ==
  IF outcome.kind = "throws" THEN lastExec
  ELSE MapSet(lastExec, <<call.tool, call.userId, call.parameters>>,
              [result |-> outcome.result, at |-> now])

ApiSelections ==
  { Selection("getEmails", Params(<<>>)),
    Selection("getEmails", Params(<< <<"query", "ai">>, <<"max_results", "5">> >>)),
    Selection("createCalendarEvent", Params(<<>>)),
    Selection("searchGoogleDrive", Params(<<>>)) }

\* a faulty executor that stamps an entry anew when it serves it
CacheRefreshedOnHit(call) ==
  IF call.hit
    THEN MapSet(responseCache, CacheKey(call.tool, call.userId, call.parameters),
                [result |-> call.result, timestamp |-> now])
    ELSE responseCache

\* the cache when executeTool has reached its return or its await: the
\* lookup and the return of cachedData.result write nothing
CacheAfterEnter(call) == responseCache

\* A caller invokes the public executeTool directly
ApiExecuteTool(selection, userId) ==
  /\ apiCalls < MaxApiCalls
  /\ apiCall.pc # "await"
  /\ apiCall' = ExecuteToolEnter(selection, userId)
  /\ responseCache' = CacheAfterEnter(ExecuteToolEnter(selection, userId))
  /\ apiCalls' = apiCalls + 1
  /\ UNCHANGED <<now, ticks, tools, metadata, otherCall, pq, queries, regCall, lastExec>>

\* The tool implementation of a direct call settles
ApiToolSettles(outcome) ==
  /\ apiCall.pc = "await"
  /\ apiCall' = ExecuteToolResume(apiCall, outcome)
  /\ responseCache' = CacheAfterResume(apiCall, outcome)
  /\ lastExec' = HistoryAfterResume(apiCall, outcome)
  /\ UNCHANGED <<now, ticks, tools, metadata, otherCall, apiCalls, pq, queries, regCall>>

\* A second caller invokes executeTool, possibly while the first caller's
\* tool is still running: nothing serialises the two calls
OtherExecuteTool(selection, userId) ==
  /\ apiCalls < MaxApiCalls
  /\ otherCall.pc # "await"
  /\ otherCall' = ExecuteToolEnter(selection, userId)
  /\ responseCache' = CacheAfterEnter(ExecuteToolEnter(selection, userId))
  /\ apiCalls' = apiCalls + 1
  /\ UNCHANGED <<now, ticks, tools, metadata, apiCall, pq, queries, regCall, lastExec>>

\* The tool implementation of the second caller's call settles
OtherToolSettles(outcome) ==
  /\ otherCall.pc = "await"
  /\ otherCall' = ExecuteToolResume(otherCall, outcome)
  /\ responseCache' = CacheAfterResume(otherCall, outcome)
  /\ lastExec' = HistoryAfterResume(otherCall, outcome)
  /\ UNCHANGED <<now, ticks, tools, metadata, apiCall, apiCalls, pq, queries, regCall>>

----------------------------------------------------------------------------
(* Text: strings the pipeline searches are sequences of characters *)

UpperCase == <<"A", "B", "C", "D", "E", "F", "G", "H", "I", "J", "K", "L", "M", "N", "O", "P", "Q", "R", "S", "T", "U", "V", "W", "X", "Y", "Z">>
LowerCase == <<"a", "b", "c", "d", "e", "f", "g", "h", "i", "j", "k", "l", "m", "n", "o", "p", "q", "r", "s", "t", "u", "v", "w", "x", "y", "z">>

\* String.prototype.toLowerCase()
ToLowerCase(text) ==
  [i \in DOMAIN text |->
     IF \E k \in DOMAIN UpperCase : UpperCase[k] = text[i]
       THEN LowerCase[CHOOSE k \in DOMAIN UpperCase : UpperCase[k] = text[i]]
       ELSE text[i]]

\* String.prototype.includes(part)
Includes(text, part) ==
  \E i \in 0..(Len(text) - Len(part)) :
     \A j \in 1..Len(part) : text[i + j] = part[j]

QueryResearch == <<"R", "e", "s", "e", "a", "r", "c", "h", " ", "A", "I">>
QueryWhatIs == <<"w", "h", "a", "t", " ", "i", "s", " ", "t", "v", "s">>
QueryCreateDoc == <<"C", "r", "e", "a", "t", "e", " ", "a", " ", "d", "o", "c", " ", "o", "f", " ", "m", "y", " ", "e", "m", "a", "i", "l">>
QueryCalendar == <<"m", "y", " ", "c", "a", "l", "e", "n", "d", "a", "r">>

Queries == {QueryResearch, QueryWhatIs, QueryCreateDoc, QueryCalendar}

\* the keywords of shouldAutoCrawl
AutoCrawlKeywords ==
  { <<"r", "e", "s", "e", "a", "r", "c", "h">>,
    <<"i", "n", "f", "o", "r", "m", "a", "t", "i", "o", "n", " ", "a", "b", "o", "u", "t">>,
    <<"t", "e", "l", "l", " ", "m", "e", " ", "a", "b", "o", "u", "t">>,
    <<"w", "h", "a", "t", " ", "i", "s">>,
    <<"e", "x", "p", "l", "a", "i", "n">>,
    <<"s", "u", "m", "m", "a", "r", "i", "z", "e">>,
    <<"a", "n", "a", "l", "y", "z", "e">>,
    <<"c", "o", "n", "t", "e", "n", "t", " ", "o", "f">>,
    <<"d", "e", "t", "a", "i", "l", "s">>,
    <<"l", "e", "a", "r", "n", " ", "a", "b", "o", "u", "t">>,
    <<"f", "i", "n", "d", " ", "o", "u", "t", " ", "a", "b", "o", "u", "t">>,
    <<"n", "e", "w", "s">>,
    <<"l", "a", "t", "e", "s", "t">>,
    <<"r", "e", "c", "e", "n", "t">>,
    <<"u", "p", "d", "a", "t", "e">>,
    <<"c", "o", "m", "p", "a", "r", "e">>,
    <<"v", "e", "r", "s", "u", "s">>,
    <<"v", "s">>,
    <<"c", "o", "m", "p", "r", "e", "h", "e", "n", "s", "i", "v", "e">>,
    <<"d", "e", "t", "a", "i", "l", "e", "d">>,
    <<"c", "o", "m", "p", "l", "e", "t", "e">> }

\* the keywords of isComprehensiveQuery
ComprehensiveKeywords ==
  { <<"c", "o", "m", "p", "r", "e", "h", "e", "n", "s", "i", "v", "e">>,
    <<"d", "e", "t", "a", "i", "l", "e", "d">>,
    <<"r", "e", "s", "e", "a", "r", "c", "h">>,
    <<"c", "o", "m", "p", "a", "r", "e">> }

KwCreate == <<"c", "r", "e", "a", "t", "e">>
KwDoc == <<"d", "o", "c">>
KwDocument == <<"d", "o", "c", "u", "m", "e", "n", "t">>
KwSummary == <<"s", "u", "m", "m", "a", "r", "y">>
KwReport == <<"r", "e", "p", "o", "r", "t">>
KwSave == <<"s", "a", "v", "e">>
KwCreateDoc == <<"c", "r", "e", "a", "t", "e", " ", "d", "o", "c">>
KwWriteTo == <<"w", "r", "i", "t", "e", " ", "t", "o">>
KwSummarize == <<"s", "u", "m", "m", "a", "r", "i", "z", "e">>
KwCalendar == <<"c", "a", "l", "e", "n", "d", "a", "r">>
KwMeeting == <<"m", "e", "e", "t", "i", "n", "g">>
KwEmail == <<"e", "m", "a", "i", "l">>

\* tool names, as far as the chain executor searches them
NameChars(tool) ==
  CASE tool = "getEmails" -> <<"g", "e", "t", "E", "m", "a", "i", "l", "s">>
    [] tool = "getLastTenMails" -> <<"g", "e", "t", "L", "a", "s", "t", "T", "e", "n", "M", "a", "i", "l", "s">>
    [] tool = "getTodaysEvents" -> <<"g", "e", "t", "T", "o", "d", "a", "y", "s", "E", "v", "e", "n", "t", "s">>
    [] tool = "searchGoogleDrive" -> <<"s", "e", "a", "r", "c", "h", "G", "o", "o", "g", "l", "e", "D", "r", "i", "v", "e">>
    [] tool = "getGoogleDriveFile" -> <<"g", "e", "t", "G", "o", "o", "g", "l", "e", "D", "r", "i", "v", "e", "F", "i", "l", "e">>
    [] OTHER -> <<>>

PartEmail == <<"E", "m", "a", "i", "l">>
PartDrive == <<"D", "r", "i", "v", "e">>

----------------------------------------------------------------------------
(* Values that cross the pipeline untyped (the reasoning model's JSON) *)

JStr(s) == [type |-> "string", val |-> s]
JNum(s) == [type |-> "number", val |-> s]
JUndefined == [type |-> "undefined", val |-> ""]

\* JavaScript truthiness
Truthy(v) ==
  CASE v.type = "string" -> v.val # ""
    [] v.type = "number" -> v.val # "0"
    [] OTHER -> FALSE

----------------------------------------------------------------------------
(* UserContext and enrichContextWithPreferences *)

Preferences(style, actions, voiceMode, clean, voiceQuery) ==
  [present |-> TRUE, responseStyle |-> style, includeActions |-> actions,
   isVoiceMode |-> voiceMode, cleanForSpeech |-> clean, isVoiceQuery |-> voiceQuery]

NoPreferences ==
  [present |-> FALSE, responseStyle |-> "", includeActions |-> FALSE,
   isVoiceMode |-> FALSE, cleanForSpeech |-> FALSE, isVoiceQuery |-> FALSE]

NoPersonalization == [present |-> FALSE, detail_level |-> "", suggest_related_topics |-> FALSE]

Context(query, preferences) ==
  [query |-> query, timestamp |-> "2024-01-15T09:00:00Z", preferences |-> preferences,
   personalization |-> NoPersonalization]

InputPreferences ==
  { NoPreferences,
    Preferences("conversational", FALSE, TRUE, TRUE, TRUE) }

\* What the preference store answers: it throws, reports an error, has no
\* row for the user, or returns the stored preferences
PreferenceOutcomes ==
  { [kind |-> "throws", detail_level |-> "", suggest_related_topics |-> FALSE],
    [kind |-> "error", detail_level |-> "", suggest_related_topics |-> FALSE],
    [kind |-> "none", detail_level |-> "", suggest_related_topics |-> FALSE],
    [kind |-> "row", detail_level |-> "comprehensive", suggest_related_topics |-> TRUE] }

MapDetailLevelToResponseStyle(detailLevel) ==
  CASE detailLevel = "brief" -> "brief"
    [] detailLevel \in {"detailed", "comprehensive"} -> "detailed"
    [] OTHER -> "conversational"

\* a faulty enrichment that loses the caller's preferences when the store
\* has nothing to offer
EnrichContextDroppingPreferences(context, outcome) ==
  IF outcome.kind # "row" THEN [context EXCEPT !.preferences = NoPreferences]
  ELSE [context EXCEPT
          !.personalization =
             [present |-> TRUE, detail_level |-> outcome.detail_level,
              suggest_related_topics |-> outcome.suggest_related_topics]]

EnrichContextWithPreferences(context, outcome) ==
  IF outcome.kind # "row" THEN context
  ELSE [context EXCEPT
          !.preferences =
             Preferences(MapDetailLevelToResponseStyle(outcome.detail_level),
                         outcome.suggest_related_topics,
                         context.preferences.present /\ context.preferences.isVoiceMode,
                         context.preferences.present /\ context.preferences.cleanForSpeech,
                         context.preferences.present /\ context.preferences.isVoiceQuery),
          !.personalization =
             [present |-> TRUE, detail_level |-> outcome.detail_level,
              suggest_related_topics |-> outcome.suggest_related_topics]]

\* The conversation context load: not attempted (no sessionId), answered, or
\* failing; it only changes the prompt text
SessionOutcomes == {"no session", "messages", "throws"}

----------------------------------------------------------------------------
(* selectTool: the reasoning model's reply and its parsing *)

DirectAnswer == [Selection(Null, NoParams) EXCEPT !.geminiOutput = JStr("Paris is the capital.")]
NoAnswer == Selection(Null, NoParams)
NumberAnswer == [Selection(Null, NoParams) EXCEPT !.geminiOutput = JNum("42")]
ScalarSelection == Selection(Undefined, NoParams)

NullSelection == [isNull |-> TRUE, value |-> NoAnswer]
Selected(s) == [isNull |-> FALSE, value |-> s]

\* The JSON documents the reasoning model is seen to send, as parsed
JsonDocuments ==
  "null" :> NullSelection @@
  "42" :> Selected(ScalarSelection) @@
  "{tool:null,geminiOutput:text}" :> Selected(DirectAnswer) @@
  "{tool:null}" :> Selected(NoAnswer) @@
  "{tool:null,geminiOutput:42}" :> Selected(NumberAnswer) @@
  "{tool:searchWeb}" :>
     Selected(Selection("searchWeb", Params(<< <<"query", "ai">>, <<"max_results", "5">> >>))) @@
  "{tool:getEmails}" :> Selected(Selection("getEmails", Params(<<>>))) @@
  "{tool:getLastTenMails}" :> Selected(Selection("getLastTenMails", Params(<<>>))) @@
  "{tool:searchGoogleDrive}" :> Selected(Selection("searchGoogleDrive", Params(<<>>)))

\* the code-fence marker (three backquotes)
Fence == "<fence>"

ModelThrows == [throws |-> TRUE, text |-> <<>>]
ModelSays(text) == [throws |-> FALSE, text |-> text]

SelectionReplies ==
  { ModelThrows,
    ModelSays(<<"I cannot answer that">>),
    ModelSays(<<Fence, "json", "\n", "{tool:searchWeb", "\n", Fence>>),
    ModelSays(<<"Here you go:", Fence, "json", "{tool:getEmails}", Fence>>),
    ModelSays(<<Fence, "json", "\n", "{tool:getEmails}", "\n", Fence, "\n">>),
    ModelSays(<<Fence, "{tool:searchWeb}", Fence>>) }
  \cup { ModelSays(<<d>>) : d \in DOMAIN JsonDocuments }

RECURSIVE TrimStart(_)
TrimStart(text) ==
  IF text # <<>> /\ text[1] = "\n" THEN TrimStart(Tail(text)) ELSE text

RECURSIVE TrimEnd(_)
TrimEnd(text) ==
  IF text # <<>> /\ text[Len(text)] = "\n"
    THEN TrimEnd(SubSeq(text, 1, Len(text) - 1)) ELSE text

\* String.prototype.trim()
Trim(text) == TrimEnd(TrimStart(text))

\* text.replace(/<fence>(json)?/g, "")
RECURSIVE RemoveFences(_)
RemoveFences(text) ==
  IF text = <<>> THEN <<>>
  ELSE IF text[1] = Fence /\ Len(text) > 1 /\ text[2] = "json"
    THEN RemoveFences(SubSeq(text, 3, Len(text)))
  ELSE IF text[1] = Fence THEN RemoveFences(Tail(text))
  ELSE <<text[1]>> \o RemoveFences(Tail(text))

Sanitize(reply) ==
  LET text == Trim(reply)
  IN  IF text # <<>> /\ text[1] = Fence THEN Trim(RemoveFences(text)) ELSE text

\* JSON.parse(text): a value, or a SyntaxError
JSONParse(text) ==
  IF Len(text) = 1 /\ text[1] \in DOMAIN JsonDocuments
    THEN [ok |-> TRUE, parsed |-> JsonDocuments[text[1]]]
    ELSE [ok |-> FALSE, parsed |-> NullSelection]

\* a faulty selectTool that answers an empty selection where it should
\* answer null
SelectToolDefaulting(reply) ==
  IF reply.throws THEN Selected(NoAnswer)
  ELSE IF JSONParse(Sanitize(reply.text)).ok THEN JSONParse(Sanitize(reply.text)).parsed
  ELSE Selected(NoAnswer)

\* selectTool(context, userId), given what the model answered
SelectTool(reply) ==
  IF reply.throws THEN NullSelection
  ELSE IF JSONParse(Sanitize(reply.text)).ok THEN JSONParse(Sanitize(reply.text)).parsed
  ELSE NullSelection

----------------------------------------------------------------------------
(* shouldChainTool *)

DataPresent(data) == data.kind # "null"

HasResults(data) == "results" \in DOMAIN data

IsVoiceQuery(context) == context.preferences.present /\ context.preferences.isVoiceQuery

\* a faulty decision that looks at the keywords only
ShouldAutoCrawlByKeyword(query, context) == \E k \in AutoCrawlKeywords : Includes(query, k)

ShouldAutoCrawl(query, context) ==
  (\E k \in AutoCrawlKeywords : Includes(query, k)) \/ IsVoiceQuery(context)

DataRetrievalTools ==
  {"getEmails", "getLastTenMails", "getTodaysEvents", "searchGoogleDrive", "getGoogleDriveFile"}

WantsDocument(query) ==
  Includes(query, KwCreate) /\
    (Includes(query, KwDoc) \/ Includes(query, KwDocument) \/ Includes(query, KwSummary)
       \/ Includes(query, KwReport))

\* a faulty predicate that leaves out the guard on success and data
ShouldChainToolIgnoringSuccess(selection, toolResult, context) ==
  LET query == ToLowerCase(context.query)
      data == toolResult.data
  IN  IF selection.tool = "searchWeb" /\ HasResults(data)
        THEN ShouldAutoCrawl(query, context) /\ Len(data.results) > 0
      ELSE IF selection.tool \in DataRetrievalTools THEN WantsDocument(query)
      ELSE FALSE

ShouldChainTool(selection, toolResult, context) ==
  LET query == ToLowerCase(context.query)
      data == toolResult.data
  IN  IF ~toolResult.success \/ ~DataPresent(data) THEN FALSE
      ELSE IF selection.tool = "searchWeb" /\ HasResults(data)
        THEN ShouldAutoCrawl(query, context) /\ Len(data.results) > 0
      ELSE IF selection.tool \in DataRetrievalTools THEN WantsDocument(query)
      ELSE IF selection.tool = "generateContentWithAI"
        THEN Includes(query, KwSave) \/ Includes(query, KwCreateDoc) \/ Includes(query, KwWriteTo)
      ELSE IF selection.tool = "processDocument"
        THEN Includes(query, KwSummarize) /\ (Includes(query, KwCreate) \/ Includes(query, KwSave))
      ELSE FALSE

----------------------------------------------------------------------------
(* performToolChaining *)

ComprehensiveSites == 5
RegularSites == 3

Min(a, b) == IF a < b THEN a ELSE b

IsComprehensiveQuery(query, context) ==
  (\E k \in ComprehensiveKeywords : Includes(query, k)) \/ IsVoiceQuery(context)

\* a faulty limit that takes every query for a comprehensive one
MaxSitesForAnyQuery(results, query, context) == Min(Len(results), ComprehensiveSites)

MaxSitesToCrawl(results, query, context) ==
  IF IsComprehensiveQuery(query, context)
    THEN Min(Len(results), ComprehensiveSites)
    ELSE Min(Len(results), RegularSites)

NoValue == [present |-> FALSE, content |-> NullData]

\* results.slice(0, maxSitesToCrawl).map(async ...): every target with a url
\* has crawlTool.execute invoked at once; one without resolves to null (rank
\* records the place of a crawl in the order of completion, 0 before it)
DispatchCrawls(results, n) ==
  [i \in 1..n |->
     IF results[i].url = ""
       THEN [status |-> "settled", outcome |-> NoOutcome, value |-> NoValue, rank |-> 0]
       ELSE [status |-> "pending", outcome |-> NoOutcome, value |-> NoValue, rank |-> 0]]

\* a faulty mapper that keeps whatever a crawl returned
CrawlValueOfAnyReturn(outcome) ==
  IF outcome.kind = "returns"
    THEN [present |-> TRUE, content |-> outcome.result.data]
    ELSE NoValue

\* what the mapper's promise of one target resolves to once its crawl settles
CrawlValue(outcome) ==
  IF outcome.kind = "returns" /\ outcome.result.success
    THEN [present |-> TRUE, content |-> outcome.result.data]
    ELSE NoValue

CrawlSettled(outcome) ==
  [status |-> "settled", outcome |-> outcome, value |-> CrawlValue(outcome), rank |-> 0]

\* a faulty collection that takes the values in the order of completion
RECURSIVE CollectAsCompleted(_, _, _)
CollectAsCompleted(results, crawls, i) ==
  IF i > Len(crawls) THEN <<>>
  ELSE LET at == {j \in DOMAIN crawls : crawls[j].rank = i /\ crawls[j].value.present}
       IN  (IF at = {} THEN <<>>
            ELSE LET j == CHOOSE x \in at : TRUE
                 IN  << [search_result |-> results[j], content |-> crawls[j].value.content,
                         crawl_index |-> j] >>)
           \o CollectAsCompleted(results, crawls, i + 1)

\* crawlResults.forEach: the fulfilled non-null values, in target order
RECURSIVE CollectCrawled(_, _, _)
CollectCrawled(results, crawls, i) ==
  IF i > Len(crawls) THEN <<>>
  ELSE (IF crawls[i].value.present
          THEN << [search_result |-> results[i], content |-> crawls[i].value.content,
                   crawl_index |-> i] >>
          ELSE <<>>)
       \o CollectCrawled(results, crawls, i + 1)

Chained(data) == [present |-> TRUE, result |-> [success |-> TRUE, data |-> data, error |-> ""]]
NoChain == [present |-> FALSE, result |-> NoResult]

CrawlChain(firstResult, crawled) ==
  Chained([kind |-> "crawled", search_results |-> firstResult.data,
           crawled_sites |-> crawled, total_sites_crawled |-> Len(crawled),
           chained_tools |-> <<"searchWeb", "crawlPage">>, auto_crawled |-> TRUE,
           comprehensive_data |-> TRUE])

Today == "1/15/2024"

RECURSIVE EmailSections(_, _)
EmailSections(emails, i) ==
  IF i > Len(emails) THEN ""
  ELSE "## " \o ToString(i) \o ". "
       \o (IF emails[i].subject = "" THEN "No Subject" ELSE emails[i].subject) \o "\n"
       \o "**From:** " \o (IF emails[i].sender = "" THEN "Unknown" ELSE emails[i].sender)
       \o "\n" \o "**Date:** Unknown\n" \o "**Summary:** No content...\n\n"
       \o EmailSections(emails, i + 1)

RECURSIVE EventSections(_, _)
EventSections(events, i) ==
  IF i > Len(events) THEN ""
  ELSE "## " \o ToString(i) \o ". "
       \o (IF events[i].summary = "" THEN "No Title" ELSE events[i].summary) \o "\n"
       \o "**Time:** Unknown\n" \o "\n"
       \o EventSections(events, i + 1)

RECURSIVE FileSections(_, _)
FileSections(files, i) ==
  IF i > Len(files) THEN ""
  ELSE "## " \o ToString(i) \o ". "
       \o (IF "name" \in DOMAIN files[i] THEN files[i].name ELSE "Untitled") \o "\n"
       \o "**Type:** Unknown\n" \o "\n"
       \o FileSections(files, i + 1)

NoDraft == [title |-> "", content |-> ""]

\* the title and markdown content synthesized from the first tool's data
DocumentDraft(tool, data) ==
  IF Includes(NameChars(tool), PartEmail)
    THEN LET emails == IF "emails" \in DOMAIN data THEN data.emails ELSE <<>>
         IN  [title |-> "Email Summary - " \o Today,
              content |-> "# Email Summary - " \o Today \o "\n\n**Total Emails:** "
                          \o ToString(Len(emails)) \o "\n\n" \o EmailSections(emails, 1)]
  ELSE IF tool = "getTodaysEvents"
    THEN LET events == IF "events" \in DOMAIN data THEN data.events ELSE <<>>
         IN  [title |-> "Calendar Summary - " \o Today,
              content |-> "# Calendar Summary - " \o Today \o "\n\n**Total Events:** "
                          \o ToString(Len(events)) \o "\n\n" \o EventSections(events, 1)]
  ELSE IF Includes(NameChars(tool), PartDrive)
    THEN LET files == IF "files" \in DOMAIN data THEN data.files ELSE <<data>>
         IN  [title |-> "Drive Files Summary - " \o Today,
              content |-> "# Google Drive Files Summary\n\n" \o FileSections(files, 1)]
  ELSE NoDraft

\* what performToolChaining has dispatched and awaits (outcome records what
\* each dispatched call did)
NoPlan == [kind |-> "none", crawls |-> <<>>, draft |-> NoDraft, outcome |-> NoOutcome]

\* sections 2 to 4 of performToolChaining, up to the createDocument call
DocumentPlan(selection, firstResult) ==
  LET data == firstResult.data
      registered == GetTool("createDocument") # Undefined
  IN  IF selection.tool \in DataRetrievalTools /\ DataPresent(data)
        THEN IF registered /\ DocumentDraft(selection.tool, data).content # ""
               THEN [kind |-> "document", crawls |-> <<>>, outcome |-> NoOutcome,
                     draft |-> DocumentDraft(selection.tool, data)]
               ELSE NoPlan
      ELSE IF selection.tool = "generateContentWithAI" /\ DataPresent(data)
        THEN IF registered
               THEN [kind |-> "document", crawls |-> <<>>, outcome |-> NoOutcome,
                     draft |-> [title |-> "Generated Content - " \o Today,
                                content |-> IF "content" \in DOMAIN data THEN data.content
                                            ELSE ""]]
               ELSE NoPlan
      ELSE IF selection.tool = "processDocument" /\ DataPresent(data)
        THEN IF registered /\ "summary" \in DOMAIN data
               THEN [kind |-> "document", crawls |-> <<>>, outcome |-> NoOutcome,
                     draft |-> [title |-> "Document Summary - " \o Today,
                                content |-> "# Document Summary\n\n" \o data.summary]]
               ELSE NoPlan
      ELSE NoPlan

\* section 1 of performToolChaining, up to Promise.allSettled
ChainPlan(selection, firstResult, context) ==
  LET query == ToLowerCase(context.query)
      data == firstResult.data
  IN  IF selection.tool = "searchWeb" /\ HasResults(data) /\ GetTool("crawlPage") # Undefined
        THEN [kind |-> "crawl",
              crawls |-> DispatchCrawls(data.results,
                                        MaxSitesToCrawl(data.results, query, context)),
              draft |-> NoDraft, outcome |-> NoOutcome]
        ELSE DocumentPlan(selection, firstResult)

\* a faulty chain that hands on the failure of createDocument
DocumentChainSurfacingFailure(selection, firstResult, outcome) ==
  IF outcome.kind = "returns" /\ outcome.result.success
    THEN Chained([kind |-> "documented", original_data |-> firstResult.data,
                  created_document |-> outcome.result.data,
                  chained_tools |-> <<selection.tool, "createDocument">>])
    ELSE [present |-> TRUE, result |-> Failed("Document creation failed")]

\* the chained result once createDocument has settled
DocumentChain(selection, firstResult, outcome) ==
  IF outcome.kind = "returns" /\ outcome.result.success
    THEN IF selection.tool \in DataRetrievalTools
           THEN Chained([kind |-> "documented", original_data |-> firstResult.data,
                         created_document |-> outcome.result.data,
                         chained_tools |-> <<selection.tool, "createDocument">>])
         ELSE IF selection.tool = "generateContentWithAI"
           THEN Chained([kind |-> "saved", generated_content |-> firstResult.data,
                         saved_document |-> outcome.result.data,
                         chained_tools |-> <<"generateContentWithAI", "createDocument">>])
         ELSE Chained([kind |-> "summarized", processed_document |-> firstResult.data,
                       summary_document |-> outcome.result.data,
                       chained_tools |-> <<"processDocument", "createDocument">>])
    ELSE NoChain

----------------------------------------------------------------------------
(* generateResponse and generateSuggestedActions *)

ResponseReplies == { ModelThrows, ModelSays(<<"\n", "You have 3 meetings today.", "\n">>) }

RECURSIVE TextOf(_)
TextOf(text) == IF text = <<>> THEN "" ELSE text[1] \o TextOf(Tail(text))

FailureText(toolResult) ==
  "I couldn't retrieve the information you requested. "
    \o (IF toolResult.error # "" THEN toolResult.error ELSE "Please try again later.")

FormatFallback ==
  "I found the information you requested, but had trouble formatting the response. Please check the raw data above."

\* generateResponse up to its model call: it returns the failure template,
\* throws on toolResult.data.auto_crawled of a null data, or awaits the model
GenerateResponseStart(toolResult) ==
  IF ~toolResult.success THEN [kind |-> "returns", text |-> FailureText(toolResult)]
  ELSE IF ~DataPresent(toolResult.data)
    THEN [kind |-> "throws", text |-> "Cannot read properties of null (reading 'auto_crawled')"]
  ELSE [kind |-> "await", text |-> ""]

\* a faulty generateResponse that hands on the model's failure
GenerateResponseRaw(reply) ==
  IF reply.throws THEN "Error: model call failed" ELSE TextOf(Trim(reply.text))

\* generateResponse after the model call
GenerateResponseEnd(reply) ==
  IF reply.throws THEN FormatFallback ELSE TextOf(Trim(reply.text))

GenerateSuggestedActions(context) ==
  LET query == ToLowerCase(context.query)
      calendar == IF Includes(query, KwCalendar) \/ Includes(query, KwMeeting)
                    THEN << "Would you like to see your schedule for tomorrow?",
                            "Do you want to check for any conflicts?" >>
                    ELSE <<>>
      email == IF Includes(query, KwEmail)
                 THEN << "Would you like me to check for any urgent emails?",
                         "Do you want to see emails from specific people?" >>
                 ELSE <<>>
  IN  SubSeq(calendar \o email, 1, Min(2, Len(calendar \o email)))

----------------------------------------------------------------------------
(* processQuery *)

UndefinedData == [kind |-> "undefined"]

\* an AIResponse; an absent list is the empty sequence
AIResponse(success, toolUsed, rawData, naturalResponse, reasoning, suggested, chained, error) ==
  [success |-> success, toolUsed |-> toolUsed, rawData |-> rawData,
   naturalResponse |-> naturalResponse, reasoning |-> reasoning,
   suggestedActions |-> suggested, chainedTools |-> chained, error |-> error]

NoResponse == AIResponse(FALSE, Undefined, UndefinedData, JUndefined, "", <<>>, <<>>, "")

NotSureText ==
  "I'm not sure how to help with that request. I can assist with calendar events, emails, and productivity tasks."

SorryText ==
  "Sorry, I encountered an error while processing your request. Please try again."

NotSureResponse ==
  AIResponse(FALSE, Undefined, UndefinedData, JStr(NotSureText), "", <<>>, <<>>,
             "No suitable tool found")

\* a faulty direct answer that reports the null tool as used
DirectResponseNamingTool(selection) ==
  AIResponse(TRUE, Show(selection.tool), NullData, selection.geminiOutput,
             selection.reasoning, <<>>, <<>>, "")

DirectResponse(selection) ==
  AIResponse(TRUE, Undefined, NullData, selection.geminiOutput, selection.reasoning,
             <<>>, <<>>, "")

CatchResponse(message) ==
  AIResponse(FALSE, Undefined, UndefinedData, JStr(SorryText), "", <<>>, <<>>, message)

IdleQuery ==
  [pc |-> "idle", context |-> Context(<<>>, NoPreferences), userId |-> "",
   enrichedContext |-> Context(<<>>, NoPreferences), reply |-> ModelThrows,
   answer |-> ModelThrows,
   toolSelection |-> NullSelection, selection |-> NoAnswer,
   call |-> IdleFrame, toolResult |-> NoResult, chain |-> NoPlan,
   chainedResult |-> NoChain, response |-> NoResponse, settled |-> "none",
   exit |-> "", phases |-> <<>>]

\* the promise of processQuery resolves with a response
Resolve(q, response, exit, phase) ==
  [q EXCEPT !.pc = "DONE", !.response = response, !.settled = "resolved",
            !.exit = exit, !.phases = Append(@, phase)]

\* the catch block of processQuery
Caught(q, message) == Resolve(q, CatchResponse(message), "catch", "ERROR")

FinalResult(q) == IF q.chainedResult.present THEN q.chainedResult.result ELSE q.toolResult

\* a faulty return statement that reports the tool result's own success
ToolResponseMirroringTool(q, text) ==
  AIResponse(FinalResult(q).success, q.selection.tool, FinalResult(q).data, JStr(text),
             q.selection.reasoning, GenerateSuggestedActions(q.context),
             IF q.chainedResult.present THEN <<"searchWeb", "crawlPage">> ELSE <<>>, "")

\* the return statement that ends the tool path
ToolResponse(q, text) ==
  AIResponse(TRUE, q.selection.tool, FinalResult(q).data, JStr(text),
             q.selection.reasoning, GenerateSuggestedActions(q.context),
             IF q.chainedResult.present THEN <<"searchWeb", "crawlPage">> ELSE <<>>, "")

\* step 3: generateResponse is called on the final result
StartResponse(q) ==
  LET started == GenerateResponseStart(FinalResult(q))
      q1 == [q EXCEPT !.phases = Append(@, "GENERATING_RESPONSE")]
  IN  CASE started.kind = "returns" -> Resolve(q1, ToolResponse(q1, started.text), "tool", "DONE")
        [] started.kind = "throws" -> Caught(q1, started.text)
        [] OTHER -> [q1 EXCEPT !.pc = "GENERATING_RESPONSE"]

\* performToolChaining has returned
FinishChaining(q, chained) == StartResponse([q EXCEPT !.chainedResult = chained])

\* a faulty chain executor that does not wait for what it dispatched
FollowPlanDetached(q, plan) == FinishChaining([q EXCEPT !.chain = plan], NoChain)

\* performToolChaining goes on with a plan: it awaits what the plan
\* dispatched, or returns null
FollowPlan(q, plan) ==
  IF plan.kind = "none" THEN FinishChaining(q, NoChain)
  ELSE [q EXCEPT !.pc = "CHAINING", !.chain = plan]

\* Promise.allSettled has resolved
JoinCrawls(q, crawls) ==
  LET crawled == CollectCrawled(q.toolResult.data.results, crawls, 1)
      q1 == [q EXCEPT !.chain.crawls = crawls]
  IN  IF Len(crawled) > 0 THEN FinishChaining(q1, CrawlChain(q.toolResult, crawled))
      ELSE FollowPlan(q1, DocumentPlan(q.selection, q.toolResult))

\* a fail-fast join: it resolves as soon as one of the crawls has settled
AnySettled(crawls) == \E i \in DOMAIN crawls : crawls[i].status = "settled"

AllSettled(crawls) == \A i \in DOMAIN crawls : crawls[i].status = "settled"

\* step 2.5: the chaining decision and the start of the chain
AfterExecute(q, toolResult) ==
  LET q1 == [q EXCEPT !.toolResult = toolResult, !.phases = Append(@, "CHAIN_CHECK")]
      plan == ChainPlan(q.selection, toolResult, q.enrichedContext)
      q2 == [q1 EXCEPT !.phases = Append(@, "CHAINING")]
  IN  IF toolResult.success /\ ShouldChainTool(q.selection, toolResult, q.enrichedContext)
        THEN IF plan.kind = "crawl" /\ AllSettled(plan.crawls)
               THEN JoinCrawls([q2 EXCEPT !.chain = plan], plan.crawls)
               ELSE FollowPlan(q2, plan)
        ELSE StartResponse(q1)

\* steps 1 and 2: the selection is looked at and the tool is executed
AfterSelection(q, selected) ==
  LET selection == selected.value
      q1 == [q EXCEPT !.selection = selection, !.phases = Append(@, "EXECUTING")]
      call == ExecuteToolEnter(selection, q.userId)
  IN  IF selected.isNull THEN Resolve(q, NotSureResponse, "no selection", "ERROR")
      ELSE IF selection.tool = Null /\ Truthy(selection.geminiOutput)
        THEN Resolve([q EXCEPT !.selection = selection], DirectResponse(selection),
                     "direct", "DIRECT_ANSWER")
      ELSE IF selection.tool = Null
        THEN AfterExecute(q1, [success |-> TRUE, data |-> NullData, error |-> ""])
      ELSE CASE call.pc = "threw" -> Caught([q1 EXCEPT !.call = call], call.error)
             [] call.pc = "returned" -> AfterExecute([q1 EXCEPT !.call = call], call.result)
             [] OTHER -> [q1 EXCEPT !.pc = "EXECUTING", !.call = call]

ProcessQuery(query, userId, preferences) ==
  /\ queries < MaxQueries
  /\ pq.pc \in {"idle", "DONE"}
  /\ pq' = [IdleQuery EXCEPT !.pc = "ENRICHING", !.context = Context(query, preferences),
                             !.userId = userId, !.settled = "pending",
                             !.phases = <<"RECEIVED", "ENRICHING">>]
  /\ queries' = queries + 1
  /\ UNCHANGED <<now, ticks, tools, metadata, responseCache, apiCall, otherCall, apiCalls, regCall, lastExec>>

\* the preference store answers
PreferencesSettle(outcome) ==
  /\ pq.pc = "ENRICHING"
  /\ pq' = [pq EXCEPT !.pc = "SELECTING",
                      !.enrichedContext = EnrichContextWithPreferences(pq.context, outcome),
                      !.phases = Append(@, "SELECTING")]
  /\ UNCHANGED <<now, ticks, tools, metadata, responseCache, apiCall, otherCall, apiCalls, queries,
                 regCall, lastExec>>

\* the reasoning model answers the selection prompt
SelectionSettles(session, reply) ==
  /\ pq.pc = "SELECTING"
  /\ pq' = AfterSelection([pq EXCEPT !.reply = reply, !.toolSelection = SelectTool(reply)],
                          SelectTool(reply))
  /\ UNCHANGED <<now, ticks, tools, metadata, responseCache, apiCall, otherCall, apiCalls, queries,
                 regCall, lastExec>>

\* the selected tool's implementation settles
ToolSettles(outcome) ==
  /\ pq.pc = "EXECUTING"
  /\ responseCache' = CacheAfterResume(pq.call, outcome)
  /\ lastExec' = HistoryAfterResume(pq.call, outcome)
  /\ pq' = LET call == ExecuteToolResume(pq.call, outcome)
           IN  IF call.pc = "threw" THEN Caught([pq EXCEPT !.call = call], call.error)
               ELSE AfterExecute([pq EXCEPT !.call = call], call.result)
  /\ UNCHANGED <<now, ticks, tools, metadata, apiCall, otherCall, apiCalls, queries, regCall>>

\* one of the dispatched crawls settles
CrawlSettles(i, outcome) ==
  /\ pq.pc = "CHAINING"
  /\ pq.chain.kind = "crawl"
  /\ i \in DOMAIN pq.chain.crawls
  /\ pq.chain.crawls[i].status = "pending"
  /\ pq' = LET completed == {j \in DOMAIN pq.chain.crawls : pq.chain.crawls[j].rank > 0}
               crawls == [pq.chain.crawls EXCEPT
                            ![i] = [CrawlSettled(outcome) EXCEPT
                                      !.rank = Cardinality(completed) + 1]]
           IN  IF AllSettled(crawls) THEN JoinCrawls(pq, crawls)
               ELSE [pq EXCEPT !.chain.crawls = crawls]
  /\ UNCHANGED <<now, ticks, tools, metadata, responseCache, apiCall, otherCall, apiCalls, queries,
                 regCall, lastExec>>

\* the createDocument call of a chain settles
DocumentSettles(outcome) ==
  /\ pq.pc = "CHAINING"
  /\ pq.chain.kind = "document"
  /\ pq' = FinishChaining([pq EXCEPT !.chain.outcome = outcome],
                          DocumentChain(pq.selection, pq.toolResult, outcome))
  /\ UNCHANGED <<now, ticks, tools, metadata, responseCache, apiCall, otherCall, apiCalls, queries,
                 regCall, lastExec>>

\* the reasoning model answers the response prompt
ResponseSettles(session, reply) ==
  /\ pq.pc = "GENERATING_RESPONSE"
  /\ pq' = Resolve([pq EXCEPT !.answer = reply],
                   ToolResponse(pq, GenerateResponseEnd(reply)), "tool", "DONE")
  /\ UNCHANGED <<now, ticks, tools, metadata, responseCache, apiCall, otherCall, apiCalls, queries,
                 regCall, lastExec>>

----------------------------------------------------------------------------
(* Time *)

Tick(d) ==
  /\ ticks < MaxTicks
  /\ now' = now + d
  /\ ticks' = ticks + 1
  /\ UNCHANGED <<tools, metadata, responseCache, apiCall, otherCall, apiCalls, pq, queries, regCall, lastExec>>

----------------------------------------------------------------------------
(* Specifications *)

Init ==
  /\ now = 0
  /\ ticks = 0
  /\ tools = RegisterDefaultTools.tools
  /\ metadata = RegisterDefaultTools.metadata
  /\ responseCache = EmptyMap
  /\ apiCall = IdleFrame
  /\ otherCall = IdleFrame
  /\ apiCalls = 0
  /\ pq = IdleQuery
  /\ queries = 0
  /\ regCall = NoRegCall
  /\ lastExec = EmptyMap

Next ==
  \/ \E d \in TickSteps : Tick(d)
  \/ RegisterTool(ToolDefinition("createDocument"))
  \/ \E s \in ApiSelections, u \in Users : ApiExecuteTool(s, u)
  \/ \E o \in ToolOutcomes(apiCall.tool) : ApiToolSettles(o)

Spec == Init /\ [][Next]_vars

\* The cache as n earlier executeTool calls of user u1 left it, each for
\* getTodaysEvents with a date of its own, all stored at time 0
FullCache(n) ==
  LET key(i) == CacheKey("getTodaysEvents", "u1", Params(<< <<"date", ToString(i)>> >>))
  IN  [k \in {key(i) : i \in 1..n} |-> [result |-> Ok(OpaqueData("d1")), timestamp |-> 0]]

\* The service with a cache that is one entry short of the size threshold, or
\* at it
InitFull ==
  /\ now = 0
  /\ ticks = 0
  /\ tools = RegisterDefaultTools.tools
  /\ metadata = RegisterDefaultTools.metadata
  /\ responseCache \in {FullCache(cacheSizeLimit - 1), FullCache(cacheSizeLimit)}
  /\ apiCall = IdleFrame
  /\ otherCall = IdleFrame
  /\ apiCalls = 0
  /\ pq = IdleQuery
  /\ queries = 0
  /\ regCall = NoRegCall
  /\ lastExec = EmptyMap

SpecFull == InitFull /\ [][Next]_vars

\* Two callers of executeTool at once
NextConcurrent ==
  \/ \E d \in TickSteps : Tick(d)
  \/ \E s \in ApiSelections, u \in Users : ApiExecuteTool(s, u)
  \/ \E o \in ToolOutcomes(apiCall.tool) : ApiToolSettles(o)
  \/ \E s \in ApiSelections, u \in Users : OtherExecuteTool(s, u)
  \/ \E o \in ToolOutcomes(otherCall.tool) : OtherToolSettles(o)

SpecConcurrent == Init /\ [][NextConcurrent]_vars

\* The processQuery pipeline on its own
NextQuery ==
  \/ RegisterTool(ToolDefinition("createDocument"))
  \/ \E q \in Queries, u \in Users, p \in InputPreferences : ProcessQuery(q, u, p)
  \/ \E o \in PreferenceOutcomes : PreferencesSettle(o)
  \/ \E s \in SessionOutcomes, r \in SelectionReplies : SelectionSettles(s, r)
  \/ \E o \in ToolOutcomes(pq.call.tool) : ToolSettles(o)
  \/ \E i \in 1..ComprehensiveSites : \E o \in ToolOutcomes("crawlPage") : CrawlSettles(i, o)
  \/ \E o \in ToolOutcomes("createDocument") : DocumentSettles(o)
  \/ \E s \in SessionOutcomes, r \in ResponseReplies : ResponseSettles(s, r)

SpecQuery == Init /\ [][NextQuery]_vars

\* The registry on its own: registrations and the static executor
NextRegistry ==
  \/ \E d \in TickSteps : Tick(d)
  \/ RegisterAllTools
  \/ \E t \in ExtraTools : RegisterTool(t)
  \/ \E n \in ToolNames, u \in Users : \E o \in ToolOutcomes(n) : StaticExecuteTool(n, u, o)

SpecRegistry == Init /\ [][NextRegistry]_vars

----------------------------------------------------------------------------
(* Properties *)

\* C1: every processQuery run resolves, it never rejects, and the response
\* it resolves with has a string as its naturalResponse, whatever the
\* reasoning model, the tools and the stores do.
C1_ResolvesWithStringResponse ==
  /\ pq.settled # "rejected"
  /\ pq.settled = "resolved" => pq.response.naturalResponse.type = "string"

C3_CacheExpiry ==
  [][ /\ apiCalls' = apiCalls + 1 =>
           LET key == CacheKey(apiCall'.tool, apiCall'.userId, apiCall'.parameters)
           IN  ( /\ GetTool(apiCall'.tool) # Undefined
                 /\ key \in DOMAIN responseCache
                 /\ now - responseCache[key].timestamp >= cacheTimeout ) =>
                 /\ apiCall'.pc = "await"
                 /\ apiCall'.invoked
                 /\ ~apiCall'.hit
      /\ (apiCall.pc = "await" /\ apiCall'.pc = "returned") =>
           LET key == CacheKey(apiCall.tool, apiCall.userId, apiCall.parameters)
           IN  /\ key \in DOMAIN responseCache'
               /\ responseCache'[key] = [result |-> apiCall'.result, timestamp |-> now] ]_vars

\* an entry of age exactly cacheTimeout was found, the tool was invoked again
\* and the entry was replaced
C3_Witness ==
  LET key == CacheKey(apiCall.tool, apiCall.userId, apiCall.parameters)
  IN  /\ apiCall.pc = "returned"
      /\ apiCall.stale
      /\ apiCall.invoked
      /\ now = cacheTimeout
      /\ key \in DOMAIN responseCache
      /\ responseCache[key] = [result |-> apiCall.result, timestamp |-> cacheTimeout]

\* C4: when the primary tool succeeded and chaining was attempted, but the
\* chain produced nothing (no secondary call could be made, createDocument
\* threw or returned success=false, or no crawl succeeded), processQuery
\* returns success=true with the primary tool's data as rawData and without
\* chainedTools.
C4_ChainingFallback ==
  LET attempted == \E i \in DOMAIN pq.phases : pq.phases[i] = "CHAINING"
      succeeded(outcome) == outcome.kind = "returns" /\ outcome.result.success
      noCrawl == /\ pq.chain.kind = "crawl"
                 /\ \A i \in DOMAIN pq.chain.crawls : ~succeeded(pq.chain.crawls[i].outcome)
      noDocument == pq.chain.kind = "document" /\ ~succeeded(pq.chain.outcome)
      noCall == pq.chain.kind = "none"
  IN  (pq.pc = "DONE" /\ pq.toolResult.success /\ attempted /\ (noCrawl \/ noDocument \/ noCall))
        => /\ pq.settled = "resolved"
           /\ pq.response.success
           /\ pq.response.rawData = pq.toolResult.data
           /\ pq.response.chainedTools = <<>>
           /\ pq.response.error = ""

\* three crawls were dispatched, one threw and the others returned
\* success=false, and the search results came back as rawData
C4_Witness ==
  /\ pq.pc = "DONE"
  /\ pq.chain.kind = "crawl"
  /\ Len(pq.chain.crawls) = 3
  /\ \E i \in DOMAIN pq.chain.crawls : pq.chain.crawls[i].outcome.kind = "throws"
  /\ \E i \in DOMAIN pq.chain.crawls :
        /\ pq.chain.crawls[i].outcome.kind = "returns"
        /\ ~pq.chain.crawls[i].outcome.result.success
  /\ \A i \in DOMAIN pq.chain.crawls :
        ~(pq.chain.crawls[i].outcome.kind = "returns" /\ pq.chain.crawls[i].outcome.result.success)
  /\ pq.response.success
  /\ pq.response.rawData = SearchData(ThreeHits)
  /\ pq.response.chainedTools = <<>>

\* C5: once the crawls of a search-to-crawl chain have all settled, a chained
\* result exists if and only if at least one crawl returned success=true; it
\* has success=true, total_sites_crawled is the number of crawls that
\* returned success=true, and crawled_sites holds exactly their payloads.
C5_CrawlPartialFailure ==
  LET crawls == pq.chain.crawls
      succeeded == {i \in DOMAIN crawls :
                      crawls[i].outcome.kind = "returns" /\ crawls[i].outcome.result.success}
      data == pq.chainedResult.result.data
  IN  (pq.chain.kind = "crawl" /\ \A i \in DOMAIN crawls : crawls[i].status = "settled")
        => /\ pq.chainedResult.present <=> succeeded # {}
           /\ pq.chainedResult.present =>
                /\ pq.chainedResult.result.success
                /\ data.total_sites_crawled = Cardinality(succeeded)
                /\ Len(data.crawled_sites) = Cardinality(succeeded)
                /\ {data.crawled_sites[k] : k \in DOMAIN data.crawled_sites} =
                     { [search_result |-> pq.toolResult.data.results[i],
                        content |-> crawls[i].outcome.result.data,
                        crawl_index |-> i] : i \in succeeded }

\* of three crawls one threw, one returned success=false and one succeeded
C5_Witness ==
  LET crawls == pq.chain.crawls
  IN  /\ pq.chain.kind = "crawl"
      /\ Len(crawls) = 3
      /\ \A i \in DOMAIN crawls : crawls[i].status = "settled"
      /\ \E i \in DOMAIN crawls : crawls[i].outcome.kind = "throws"
      /\ \E i \in DOMAIN crawls :
            crawls[i].outcome.kind = "returns" /\ ~crawls[i].outcome.result.success
      /\ Cardinality({i \in DOMAIN crawls :
                        crawls[i].outcome.kind = "returns" /\ crawls[i].outcome.result.success}) = 1
      /\ pq.chainedResult.present
      /\ pq.chainedResult.result.data.total_sites_crawled = 1

\* C6: when the reasoning model throws, or its reply is not valid JSON once
\* the code-fence markers are stripped, selectTool returns null and
\* processQuery resolves with success=false and the fixed "I'm not sure how
\* to help" message; no tool is executed and the response cache is left as
\* it was.
C6_SelectionFailure ==
  [][ ( /\ pq.pc = "SELECTING"
        /\ pq'.pc # "SELECTING"
        /\ (pq'.reply.throws \/ ~JSONParse(Sanitize(pq'.reply.text)).ok) )
      => /\ pq'.toolSelection.isNull
         /\ pq'.settled = "resolved"
         /\ ~pq'.response.success
         /\ pq'.response.naturalResponse =
              JStr("I'm not sure how to help with that request. I can assist with calendar events, emails, and productivity tasks.")
         /\ pq'.call.pc = "idle"
         /\ ~pq'.call.invoked
         /\ responseCache' = responseCache
         /\ lastExec' = lastExec ]_vars

\* the model answered a fenced, unterminated JSON text
C6_Witness ==
  /\ pq.pc = "DONE"
  /\ pq.reply = ModelSays(<<Fence, "json", "\n", "{tool:searchWeb", "\n", Fence>>)
  /\ pq.toolSelection.isNull
  /\ ~pq.response.success
  /\ pq.response.error = "No suitable tool found"
  /\ ~pq.call.invoked

\* C7: a selection with tool = null and no geminiOutput ends like a null
\* selection: success=false with the "I'm not sure how to help" message.
C7_EmptySelectionIsNotSure ==
  ( /\ pq.pc = "DONE"
    /\ ~pq.toolSelection.isNull
    /\ pq.selection.tool = Null
    /\ ~Truthy(pq.selection.geminiOutput) )
  => /\ ~pq.response.success
     /\ pq.response.naturalResponse =
          JStr("I'm not sure how to help with that request. I can assist with calendar events, emails, and productivity tasks.")
     /\ pq.response.error = "No suitable tool found"

\* C8: AIService.executeTool never throws to its caller.
C8_ExecutorNeverThrows == apiCall.pc # "threw"

\* C9: the static MCPToolRegistry.executeTool never throws; for a name that
\* is not registered it resolves to {success:false, error:"Tool '<name>' not
\* found", timestamp}, for an implementation that throws an Error to
\* {success:false, error:<the message>, timestamp}; it leaves the registry
\* as it was.
C9_RegistryExecutorEnvelopes ==
  /\ [](regCall.called =>
          /\ ~regCall.threw
          /\ ~regCall.found =>
               regCall.value = [success |-> FALSE,
                                error |-> "Tool '" \o regCall.name \o "' not found",
                                timestamp |-> regCall.at]
          /\ (regCall.found /\ regCall.outcome.kind = "throws" /\ regCall.outcome.isError) =>
               regCall.value = [success |-> FALSE, error |-> regCall.outcome.message,
                                timestamp |-> regCall.at])
  /\ [][regCall' # regCall => (tools' = tools /\ metadata' = metadata)]_vars

\* a registered implementation threw and the call resolved to the envelope
C9_Witness ==
  /\ regCall.called
  /\ regCall.found
  /\ regCall.outcome.kind = "throws"
  /\ ~regCall.threw
  /\ regCall.value.success = FALSE
  /\ regCall.value.error = "network down"

\* C10: every name that has an implementation also has metadata.
C10_RegistryPairing ==
  \A n \in ToolNames : n \in DOMAIN tools => n \in DOMAIN metadata


\* C11: when the preference store throws, reports an error or has no row,
\* enrichContextWithPreferences returns a context with the query, timestamp
\* and preferences of its input; it always returns (processQuery goes on to
\* the selection), and the caller's context object is the same after the
\* call as before, whatever the store answered.
C11_EnrichmentFailOpen ==
  /\ [](pq.pc = "ENRICHING" =>
          \A o \in PreferenceOutcomes :
             o.kind # "row" =>
               /\ EnrichContextWithPreferences(pq.context, o).query = pq.context.query
               /\ EnrichContextWithPreferences(pq.context, o).timestamp = pq.context.timestamp
               /\ EnrichContextWithPreferences(pq.context, o).preferences
                    = pq.context.preferences)
  /\ [][ (pq.pc = "ENRICHING" /\ pq'.pc # "ENRICHING") =>
           /\ pq'.context = pq.context
           /\ pq'.pc = "SELECTING"
           /\ pq'.settled = "pending"
           /\ \E o \in PreferenceOutcomes :
                 pq'.enrichedContext = EnrichContextWithPreferences(pq.context, o) ]_vars

\* a caller with voice preferences got its own context back from a store
\* that had nothing to offer
C11_Witness ==
  /\ pq.pc = "SELECTING"
  /\ pq.context.preferences.present
  /\ pq.context.preferences.isVoiceQuery
  /\ pq.enrichedContext = pq.context


\* C12: when the selected tool is not registered or its implementation
\* throws, the naturalResponse of processQuery is the response generator's
\* "I couldn't retrieve the information you requested." template with the
\* error in it, and the tool is invoked at most once for the query.
C12_ExecutionFailureTemplate ==
  (pq.pc = "DONE" /\ pq.call.pc = "threw") =>
     /\ pq.response.naturalResponse =
          JStr("I couldn't retrieve the information you requested. " \o pq.call.error)
     /\ pq.exit = "tool"

\* C13: when the model call of generateResponse fails after a successful
\* tool execution, the text is the fixed fallback and processQuery resolves
\* with success=true and the data of the final (chained, if any) result as
\* rawData.
C13_ResponseGenerationFallback ==
  [][ (pq.pc = "GENERATING_RESPONSE" /\ pq'.pc # "GENERATING_RESPONSE" /\ pq'.answer.throws) =>
        /\ pq.toolResult.success
        /\ pq'.settled = "resolved"
        /\ pq'.response.success
        /\ pq'.response.error = ""
        /\ pq'.response.naturalResponse =
             JStr("I found the information you requested, but had trouble formatting the response. Please check the raw data above.")
        /\ pq'.response.rawData =
             (IF pq.chainedResult.present THEN pq.chainedResult.result.data
              ELSE pq.toolResult.data) ]_vars

\* the model failed on the result of a successful crawl chain
C13_Witness ==
  /\ pq.pc = "DONE"
  /\ pq.exit = "tool"
  /\ pq.answer.throws
  /\ pq.chain.kind = "crawl"
  /\ pq.chainedResult.present
  /\ pq.response.success
  /\ pq.response.rawData = pq.chainedResult.result.data
  /\ pq.response.rawData.total_sites_crawled = 2


\* C14: in the response of the tool path toolUsed is the selected tool; when
\* a chain succeeded chainedTools is the sequence of tools that were
\* invoked, as the chained result lists it, and otherwise it is absent.
C14_ChainedToolsListInvokedTools ==
  (pq.pc = "DONE" /\ pq.exit = "tool") =>
     /\ pq.response.toolUsed = pq.selection.tool
     /\ pq.chainedResult.present =>
          pq.response.chainedTools = pq.chainedResult.result.data.chained_tools
     /\ ~pq.chainedResult.present => pq.response.chainedTools = <<>>


\* C15: a tool whose metadata says dataAccess = write is cached like any
\* other: an executeTool call for it that starts less than cacheTimeout after
\* an invocation for the same user and parameters returned is served the
\* result of that invocation, and the implementation is not invoked again.
C15_WriteToolsAreCached ==
  [][ apiCalls' = apiCalls + 1 =>
        LET k == <<apiCall'.tool, apiCall'.userId, apiCall'.parameters>>
        IN  ( /\ apiCall'.tool \in DOMAIN metadata
              /\ metadata[apiCall'.tool].dataAccess = "write"
              /\ k \in DOMAIN lastExec
              /\ now - lastExec[k].at < cacheTimeout ) =>
              /\ apiCall'.hit
              /\ ~apiCall'.invoked
              /\ apiCall'.pc = "returned"
              /\ apiCall'.result = lastExec[k].result ]_vars

\* a second createCalendarEvent with the same parameters got the first one's
\* result without the calendar being written again
C15_Witness ==
  /\ apiCalls = 2
  /\ apiCall.tool = "createCalendarEvent"
  /\ metadata["createCalendarEvent"].dataAccess = "write"
  /\ apiCall.pc = "returned"
  /\ apiCall.hit
  /\ ~apiCall.invoked
  /\ now > 0
  /\ <<apiCall.tool, apiCall.userId, apiCall.parameters>> \in DOMAIN lastExec
  /\ apiCall.result = lastExec[<<apiCall.tool, apiCall.userId, apiCall.parameters>>].result
  /\ apiCall.result.success


\* C16: a selection with tool = null and a non-empty geminiOutput is
\* answered directly: processQuery resolves with success=true and
\* naturalResponse = geminiOutput, without toolUsed or chainedTools; no tool
\* is invoked, the reasoning model is not called again, and the response
\* cache is left as it was.
C16_DirectAnswer ==
  [][ ( /\ pq.pc = "SELECTING"
        /\ pq'.pc # "SELECTING"
        /\ ~pq'.toolSelection.isNull
        /\ pq'.toolSelection.value.tool = Null
        /\ Truthy(pq'.toolSelection.value.geminiOutput) )
      => /\ pq'.pc = "DONE"
         /\ pq'.settled = "resolved"
         /\ pq'.response.success
         /\ pq'.response.naturalResponse = pq'.toolSelection.value.geminiOutput
         /\ pq'.response.toolUsed = Undefined
         /\ pq'.response.chainedTools = <<>>
         /\ pq'.call = IdleFrame
         /\ pq'.chain = NoPlan
         /\ \A i \in DOMAIN pq'.phases : pq'.phases[i] # "GENERATING_RESPONSE"
         /\ responseCache' = responseCache
         /\ lastExec' = lastExec ]_vars

\* the model answered "Paris is the capital." itself
C16_Witness ==
  /\ pq.pc = "DONE"
  /\ pq.exit = "direct"
  /\ pq.toolSelection = Selected(DirectAnswer)
  /\ pq.response.success
  /\ pq.response.naturalResponse = JStr("Paris is the capital.")
  /\ pq.response.toolUsed = Undefined
  /\ ~pq.call.invoked


\* C17: a processQuery run enters its phases in the order ENRICHING,
\* SELECTING, then DIRECT_ANSWER or EXECUTING, then CHAIN_CHECK and possibly
\* CHAINING, then GENERATING_RESPONSE, then DONE, or ends in ERROR; no phase
\* is entered twice and each needs the ones before it. No tool is executed
\* before selectTool has returned, nothing is chained while the primary tool
\* is still running or after it failed, and the response is not generated
\* while a chained call is outstanding.
C17_PhaseOrder ==
  LET rank(p) == CASE p = "RECEIVED" -> 0
                   [] p = "ENRICHING" -> 1
                   [] p = "SELECTING" -> 2
                   [] p \in {"DIRECT_ANSWER", "EXECUTING"} -> 3
                   [] p = "CHAIN_CHECK" -> 4
                   [] p = "CHAINING" -> 5
                   [] p = "GENERATING_RESPONSE" -> 6
                   [] p \in {"DONE", "ERROR"} -> 7
      entered(p) == \E i \in DOMAIN pq.phases : pq.phases[i] = p
  IN  /\ \A i, j \in DOMAIN pq.phases : i < j => rank(pq.phases[i]) < rank(pq.phases[j])
      /\ \A i \in DOMAIN pq.phases :
            pq.phases[i] \in {"DIRECT_ANSWER", "DONE", "ERROR"} => i = Len(pq.phases)
      /\ entered("SELECTING") => entered("ENRICHING")
      /\ (entered("EXECUTING") \/ entered("DIRECT_ANSWER")) => entered("SELECTING")
      /\ entered("CHAIN_CHECK") => entered("EXECUTING")
      /\ entered("CHAINING") => entered("CHAIN_CHECK")
      /\ entered("GENERATING_RESPONSE") => entered("CHAIN_CHECK")
      /\ entered("DONE") => entered("GENERATING_RESPONSE")
      /\ pq.pc \in {"ENRICHING", "SELECTING", "EXECUTING", "CHAINING", "GENERATING_RESPONSE"}
           => pq.phases[Len(pq.phases)] = pq.pc
      /\ pq.pc \in {"ENRICHING", "SELECTING"} => pq.call = IdleFrame
      /\ pq.chain # NoPlan => (pq.call.pc # "await" /\ pq.toolResult.success)
      /\ pq.pc \in {"GENERATING_RESPONSE", "DONE"} =>
           /\ \A i \in DOMAIN pq.chain.crawls : pq.chain.crawls[i].status = "settled"
           /\ (pq.chain.kind = "document" => pq.chain.outcome # NoOutcome)

\* a run that went through every phase of the tool path
C17_Witness ==
  /\ pq.pc = "DONE"
  /\ pq.phases = <<"RECEIVED", "ENRICHING", "SELECTING", "EXECUTING", "CHAIN_CHECK",
                   "CHAINING", "GENERATING_RESPONSE", "DONE">>
  /\ pq.chain.kind = "crawl"
  /\ pq.chainedResult.present


\* C18: when two executeTool calls with the same (tool, userId, parameters)
\* key overlap, the second starting before the first's tool invocation has
\* resolved, the tool is invoked only once: the two calls are never both
\* waiting for an invocation of their own.
C18_ConcurrentDedupe ==
  ( /\ apiCall.pc = "await"
    /\ otherCall.pc = "await"
    /\ CacheKey(apiCall.tool, apiCall.userId, apiCall.parameters)
         = CacheKey(otherCall.tool, otherCall.userId, otherCall.parameters) )
  => ~(apiCall.invoked /\ otherCall.invoked)


C20_ChainingGatedOnSuccess ==
  [][ LET ungated == { Failed("quota exceeded"), Ok(NullData),
                       [success |-> FALSE, data |-> SearchData(ThreeHits), error |-> "late"],
                       [success |-> FALSE,
                        data |-> EmailData(<< [subject |-> "hello", sender |-> "ann"] >>),
                        error |-> "late"] }
          names == {"searchWeb", "getEmails", "getLastTenMails", "generateContentWithAI",
                    "processDocument", "crawlPage"}
          entered(q, p) == \E i \in DOMAIN q.phases : q.phases[i] = p
          key == CacheKey(pq'.call.tool, pq'.call.userId, pq'.call.parameters)
      IN  /\ \A n \in names, r \in ungated :
                ~ShouldChainTool(Selection(n, Params(<<>>)), r, pq'.enrichedContext)
          /\ (pq'.chain.kind # "none" \/ entered(pq', "CHAINING")) =>
                (pq'.toolResult.success /\ DataPresent(pq'.toolResult.data))
          /\ (entered(pq', "CHAIN_CHECK") /\ ~entered(pq, "CHAIN_CHECK")) =>
                /\ tools' = tools /\ metadata' = metadata
                /\ pq'.enrichedContext = pq.enrichedContext
                /\ pq'.selection.tool = pq'.toolSelection.value.tool
                /\ pq'.selection.parameters = pq'.toolSelection.value.parameters
                /\ \/ responseCache' = responseCache
                   \/ responseCache' = MapSet(responseCache, key,
                                              [result |-> pq'.toolResult, timestamp |-> now])
                /\ entered(pq', "CHAINING") =
                     ShouldChainTool(pq'.selection, pq'.toolResult, pq'.enrichedContext) ]_vars

\* a research query whose web search failed: the run ended without chaining
C20_Witness ==
  /\ pq.pc = "DONE"
  /\ pq.selection.tool = "searchWeb"
  /\ pq.call.invoked
  /\ ~pq.toolResult.success
  /\ ShouldAutoCrawl(ToLowerCase(pq.enrichedContext.query), pq.enrichedContext)
  /\ \E i \in DOMAIN pq.phases : pq.phases[i] = "CHAIN_CHECK"
  /\ \A i \in DOMAIN pq.phases : pq.phases[i] # "CHAINING"
  /\ pq.chain = NoPlan


\* C21: only successful results are cached. No entry of the response cache
\* holds a result with success = FALSE, and an executeTool call that returns
\* a result with success = FALSE has invoked the tool rather than served an
\* earlier failure from the cache.
C21_OnlySuccessCached ==
  /\ \A k \in DOMAIN responseCache : responseCache[k].result.success
  /\ (apiCall.pc = "returned" /\ ~apiCall.result.success) => apiCall.invoked


\* C22: eviction is lazy. Entries leave the response cache only in a step in
\* which an executeTool call has just stored its result and the cache then
\* holds more than cacheSizeLimit entries; that step removes exactly the
\* entries older than cacheTimeout and changes no other entry; a step that
\* stores a result and leaves at most cacheSizeLimit entries removes nothing,
\* and neither the clock nor any other operation removes an entry.
C22_LazyEviction ==
  [][ LET key == CacheKey(apiCall.tool, apiCall.userId, apiCall.parameters)
          stored == apiCall.pc = "await" /\ apiCall'.pc = "returned"
          removed == DOMAIN responseCache \ DOMAIN responseCache'
          expired == {k \in DOMAIN responseCache \ {key} :
                        now - responseCache[k].timestamp > cacheTimeout}
          size == Cardinality(DOMAIN responseCache \cup {key})
      IN  /\ removed # {} => (stored /\ size > cacheSizeLimit)
          /\ (stored /\ size > cacheSizeLimit) => removed = expired
          /\ stored => /\ key \in DOMAIN responseCache'
                       /\ responseCache'[key] = [result |-> apiCall'.result, timestamp |-> now]
          /\ \A k \in DOMAIN responseCache' :
                (k # key \/ ~stored) =>
                   (k \in DOMAIN responseCache /\ responseCache'[k] = responseCache[k]) ]_vars

\* after a sweep: the entries stored at time 0 are gone, an entry younger
\* than cacheTimeout that was stored before the sweeping call is still there
C22_Witness ==
  /\ apiCall.pc = "returned"
  /\ apiCall.invoked
  /\ DOMAIN responseCache \cap DOMAIN FullCache(cacheSizeLimit) = {}
  /\ \E k \in DOMAIN responseCache :
        /\ responseCache[k].timestamp < now
        /\ now - responseCache[k].timestamp < cacheTimeout
  /\ \E k \in DOMAIN responseCache : responseCache[k].timestamp = now


\* C23: retrieval-to-document chaining covers every data-retrieval tool.
\* When the chain executor is entered for a successful result of one of
\* getEmails, getLastTenMails, getTodaysEvents, searchGoogleDrive and
\* getGoogleDriveFile while createDocument is registered, it synthesizes a
\* non-empty document and invokes createDocument; when that call returns
\* success the chained result is {original_data, created_document}.
C23_RetrievalToDocument ==
  [][ LET entered(q) == \E i \in DOMAIN q.phases : q.phases[i] = "CHAINING"
      IN  /\ ( /\ entered(pq') /\ ~entered(pq)
               /\ pq'.selection.tool \in DataRetrievalTools
               /\ "createDocument" \in DOMAIN tools )
             => ( /\ pq'.chain.kind = "document"
                  /\ pq'.chain.draft.content # ""
                  /\ pq'.pc = "CHAINING" )
          /\ ( /\ pq.pc = "CHAINING" /\ pq.chain.kind = "document"
               /\ pq.selection.tool \in DataRetrievalTools
               /\ pq'.chain.outcome.kind = "returns"
               /\ pq'.chain.outcome.result.success )
             => ( /\ pq'.chainedResult.present
                  /\ pq'.chainedResult.result.data.original_data = pq.toolResult.data
                  /\ pq'.chainedResult.result.data.created_document
                       = pq'.chain.outcome.result.data ) ]_vars


\* C24: crawl target selection. In a search-to-crawl chain there is one crawl
\* slot for each of the first min(number of results, 5) search results when
\* the query is comprehensive, and of the first min(number of results, 3)
\* otherwise, in search order; crawlPage is invoked for exactly the slots
\* whose result has a url, a result without a url is skipped and no later
\* result takes its place, and every crawled site is the result at its
\* crawl index.
C24_CrawlTargetSelection ==
  pq.chain.kind = "crawl" =>
    LET results == pq.toolResult.data.results
        crawls == pq.chain.crawls
        query == ToLowerCase(pq.enrichedContext.query)
        limit == IF IsComprehensiveQuery(query, pq.enrichedContext) THEN 5 ELSE 3
        invoked(i) == crawls[i].status = "pending" \/ crawls[i].outcome # NoOutcome
    IN  /\ Len(crawls) = (IF Len(results) < limit THEN Len(results) ELSE limit)
        /\ \A i \in DOMAIN crawls : invoked(i) <=> results[i].url # ""
        /\ Cardinality({i \in DOMAIN crawls : invoked(i)}) <= limit
        /\ pq.chainedResult.present =>
             \A k \in DOMAIN pq.chainedResult.result.data.crawled_sites :
                LET site == pq.chainedResult.result.data.crawled_sites[k]
                IN  /\ site.crawl_index \in DOMAIN crawls
                    /\ site.search_result = results[site.crawl_index]

\* six results, of which the second to the fourth have no url, under a query
\* that is not comprehensive: three slots, one crawl
C24_Witness ==
  /\ pq.pc = "DONE"
  /\ pq.chain.kind = "crawl"
  /\ pq.toolResult.data.results = SixHits
  /\ ~IsComprehensiveQuery(ToLowerCase(pq.enrichedContext.query), pq.enrichedContext)
  /\ Len(pq.chain.crawls) = 3
  /\ pq.chain.crawls[1].outcome # NoOutcome
  /\ pq.chain.crawls[2].outcome = NoOutcome
  /\ pq.chain.crawls[3].outcome = NoOutcome
  /\ pq.chainedResult.present


\* C25: the search-to-crawl decision. For a successful searchWeb result
\* shouldChainTool is TRUE exactly when the result list is non-empty and the
\* lower-cased query contains one of the auto-crawl keywords or the request
\* is a voice query; a run with searchWeb chains exactly then; and for a
\* tool other than searchWeb neither the keywords nor the voice flag lead to
\* a crawl chain.
C25_SearchToCrawlDecision ==
  LET context == pq.enrichedContext
      seeking == \/ \E k \in AutoCrawlKeywords : Includes(ToLowerCase(context.query), k)
                 \/ (context.preferences.present /\ context.preferences.isVoiceQuery)
      lists == {<<>>, ThreeHits, SixHits}
      others == {"getEmails", "getLastTenMails", "getTodaysEvents", "searchGoogleDrive",
                 "createCalendarEvent", "crawlPage", "generateContentWithAI",
                 "processDocument"}
      entered(p) == \E i \in DOMAIN pq.phases : pq.phases[i] = p
  IN  /\ \A l \in lists :
            ShouldChainTool(Selection("searchWeb", Params(<<>>)), Ok(SearchData(l)), context)
              <=> (Len(l) > 0 /\ seeking)
      /\ \A t \in others, l \in lists :
            ChainPlan(Selection(t, Params(<<>>)), Ok(SearchData(l)), context).kind # "crawl"
      /\ pq.chain.kind = "crawl" => pq.selection.tool = "searchWeb"
      /\ ( /\ entered("CHAIN_CHECK")
           /\ pq.selection.tool = "searchWeb"
           /\ pq.toolResult.success
           /\ "results" \in DOMAIN pq.toolResult.data )
         => (entered("CHAINING") <=> (Len(pq.toolResult.data.results) > 0 /\ seeking))

\* a voice query without any of the keywords: the search result is chained
\* into a crawl
C25_Witness ==
  /\ pq.pc = "DONE"
  /\ pq.selection.tool = "searchWeb"
  /\ pq.chain.kind = "crawl"
  /\ pq.enrichedContext.preferences.present
  /\ pq.enrichedContext.preferences.isVoiceQuery
  /\ ~\E k \in AutoCrawlKeywords : Includes(ToLowerCase(pq.enrichedContext.query), k)
  /\ \E i \in DOMAIN pq.phases : pq.phases[i] = "CHAINING"


\* C26: when the request's preferences carry includeActions = FALSE, the
\* AIResponse processQuery resolves with has no suggested actions, whatever
\* the query says.
C26_NoActionsWhenDisabled ==
  ( /\ pq.pc = "DONE"
    /\ pq.context.preferences.present
    /\ ~pq.context.preferences.includeActions )
  => pq.response.suggestedActions = <<>>


\* C27 as stated: processQuery returns success = TRUE only if the query was
\* answered directly or the primary tool's result had success = TRUE.
C27_SuccessOnlyOnToolSuccess ==
  (pq.pc = "DONE" /\ pq.response.success) => (pq.exit = "direct" \/ pq.toolResult.success)

\* C27 as amended: processQuery returns success = TRUE exactly when the query
\* was answered directly or a tool was selected, its execution returned a
\* result and generateResponse returned; the result's own success flag does
\* not enter: for a tool result with success = FALSE the response has
\* success = TRUE, the failure template as naturalResponse and the result's
\* data as rawData.
C27_SuccessOnReturnedTool ==
  pq.pc = "DONE" =>
    /\ pq.response.success <=> pq.exit \in {"direct", "tool"}
    /\ pq.exit = "tool" => pq.call.pc = "returned"
    /\ (pq.exit = "tool" /\ ~pq.toolResult.success) =>
         /\ pq.response.success
         /\ pq.response.naturalResponse = JStr(FailureText(pq.toolResult))
         /\ pq.response.rawData = pq.toolResult.data
         /\ pq.response.toolUsed = pq.selection.tool
         /\ ~pq.chainedResult.present

\* a run whose tool returned a failure and which resolved with success
C27_Witness ==
  /\ pq.pc = "DONE"
  /\ pq.exit = "tool"
  /\ pq.call.invoked
  /\ ~pq.toolResult.success
  /\ pq.response.success


\* C28: cache isolation. An executeTool call that is served from the cache
\* returns the result of the last tool invocation made with its own tool
\* name, its own userId and its own parameters; every cache entry is the
\* result of an invocation with the tool, user and parameters its key is
\* built from, and no two of them share a key. After any interleaving of the
\* calls of two users, a result produced for one is never returned to the
\* other.
C28_CacheIsolation ==
  [][ LET served(f) ==
            LET t == <<f.tool, f.userId, f.parameters>>
            IN  f.hit => /\ f.pc = "returned"
                         /\ ~f.invoked
                         /\ t \in DOMAIN lastExec
                         /\ f.result = lastExec[t].result
      IN  /\ (apiCalls' = apiCalls + 1 /\ apiCall' # apiCall) => served(apiCall')
          /\ (apiCalls' = apiCalls + 1 /\ otherCall' # otherCall) => served(otherCall')
          /\ \A t1, t2 \in DOMAIN lastExec' :
                CacheKey(t1[1], t1[2], t1[3]) = CacheKey(t2[1], t2[2], t2[3]) => t1 = t2
          /\ \A k \in DOMAIN responseCache' :
                \E t \in DOMAIN lastExec' :
                   /\ k = CacheKey(t[1], t[2], t[3])
                   /\ responseCache'[k].result = lastExec'[t].result ]_vars

\* two users asked for the same tool with the same parameters and got
\* different results: each has an entry of its own
C28_Witness ==
  /\ apiCall.pc = "returned" /\ otherCall.pc = "returned"
  /\ apiCall.invoked /\ otherCall.invoked
  /\ apiCall.tool = otherCall.tool
  /\ apiCall.parameters = otherCall.parameters
  /\ apiCall.userId # otherCall.userId
  /\ apiCall.result # otherCall.result
  /\ LET ka == CacheKey(apiCall.tool, apiCall.userId, apiCall.parameters)
         ko == CacheKey(otherCall.tool, otherCall.userId, otherCall.parameters)
     IN  /\ ka \in DOMAIN responseCache /\ ko \in DOMAIN responseCache
         /\ responseCache[ka].result = apiCall.result
         /\ responseCache[ko].result = otherCall.result


\* C29: a cache hit leaves the response cache unchanged: the entry keeps the
\* timestamp of the tool execution that produced it and nothing is inserted
\* or evicted. So every call that is served from the cache starts less than
\* cacheTimeout after that execution, however many calls were served in
\* between.
C29_HitLeavesCacheUnchanged ==
  [][ (apiCalls' = apiCalls + 1 /\ apiCall'.hit) =>
        LET t == <<apiCall'.tool, apiCall'.userId, apiCall'.parameters>>
            key == CacheKey(apiCall'.tool, apiCall'.userId, apiCall'.parameters)
        IN  /\ responseCache' = responseCache
            /\ lastExec' = lastExec
            /\ t \in DOMAIN lastExec
            /\ responseCache'[key].timestamp = lastExec[t].at
            /\ now - lastExec[t].at < cacheTimeout ]_vars

\* a call served at age cacheTimeout - 1: the entry still carries the time
\* of the execution
C29_Witness ==
  LET key == CacheKey(apiCall.tool, apiCall.userId, apiCall.parameters)
  IN  /\ apiCall.pc = "returned"
      /\ apiCall.hit
      /\ key \in DOMAIN responseCache
      /\ responseCache[key].timestamp < now
      /\ now - responseCache[key].timestamp = cacheTimeout - 1
      /\ responseCache[key].result = apiCall.result


\* C30: in a search-to-crawl chained result crawled_sites is in ascending
\* order of crawl_index, each entry carries the search result whose 1-based
\* position in the result list is its crawl_index together with what the
\* crawl of that result returned, and this does not depend on the order in
\* which the crawls completed.
C30_CrawledSitesInSearchOrder ==
  (pq.chain.kind = "crawl" /\ pq.chainedResult.present) =>
    LET sites == pq.chainedResult.result.data.crawled_sites
        results == pq.toolResult.data.results
        crawls == pq.chain.crawls
    IN  /\ \A a, b \in DOMAIN sites : a < b => sites[a].crawl_index < sites[b].crawl_index
        /\ \A a \in DOMAIN sites :
              /\ sites[a].crawl_index \in DOMAIN crawls
              /\ sites[a].search_result = results[sites[a].crawl_index]
              /\ sites[a].content = crawls[sites[a].crawl_index].outcome.result.data
        /\ pq.chainedResult.result.data.total_sites_crawled = Len(sites)

\* the crawl of a later result completed before the crawl of an earlier one,
\* both succeeded, and the earlier result comes first in crawled_sites
C30_Witness ==
  /\ pq.pc = "DONE"
  /\ pq.chain.kind = "crawl"
  /\ pq.chainedResult.present
  /\ \E i, j \in DOMAIN pq.chain.crawls :
        /\ i < j
        /\ pq.chain.crawls[i].value.present /\ pq.chain.crawls[j].value.present
        /\ pq.chain.crawls[i].rank > pq.chain.crawls[j].rank
        /\ pq.chain.crawls[j].rank > 0
        /\ \E a, b \in DOMAIN pq.chainedResult.result.data.crawled_sites :
              /\ a < b
              /\ pq.chainedResult.result.data.crawled_sites[a].crawl_index = i
              /\ pq.chainedResult.result.data.crawled_sites[b].crawl_index = j

====
